---------------------------- MODULE Spec2Model ----------------------------
(***************************************************************************)
(* Model of .github/scripts/process-commits.py: the pull-request body is   *)
(* read from the environment, split into lines, every bullet line          *)
(* "* <message> (<hash>)" is turned into a Markdown entry, and three       *)
(* values are appended to the file named by GITHUB_ENV.                    *)
(*                                                                         *)
(* A Python str is a sequence of one-character strings.  The module-level  *)
(* names of the script are the variables of the model; a name that is not  *)
(* bound yet holds Unbound and is never read in that state.                *)
(***************************************************************************)
EXTENDS Integers, Sequences, FiniteSets

VARIABLES environ, fs, fs0, pc, body, todo, idx, lines, feat_lines, line, m,
          msg, sha, repo, url, entry, body_out, feat_body, f

vars == <<environ, fs, fs0, pc, body, todo, idx, lines, feat_lines, line, m,
          msg, sha, repo, url, entry, body_out, feat_body, f>>

-----------------------------------------------------------------------------
(* Characters and literals of the script *)

\* The characters \s matches and str.strip() removes (those of the model's alphabet).
WS == {" ", "\t", "\n", "\r", "\f"}

\* The line boundaries of str.splitlines() (those of the model's alphabet).
LineBreaks == {"\n", "\r", "\f"}

\* [0-9a-f]
HexDigits == {"0", "1", "2", "3", "4", "5", "6", "7", "8", "9", "a", "b", "c", "d", "e", "f"}

\* {7,}
MinHex == 7

\* len(body_out) > 3900, body_out[:3900]
Limit == 3900

ChorePrefix == <<"c", "h", "o", "r", "e">>

MergePrefix == <<"M", "e", "r", "g", "e", " ">>

FeatPrefix == <<"f", "e", "a", "t">>

UrlHead == <<"h", "t", "t", "p", "s", ":", "/", "/", "g", "i", "t", "h", "u", "b", ".", "c", "o", "m", "/">>

UrlCommit == <<"/", "c", "o", "m", "m", "i", "t", "/">>

NoChanges == <<"N", "o", " ", "c", "h", "a", "n", "g", "e", "s", ".">>

Ellipsis == <<"\n", ".", ".", ".">>

CommitHead == <<"C", "O", "M", "M", "I", "T", "_", "L", "I", "N", "E", "S", "<", "<", "E", "N", "V", "E", "O", "F", "\n">>

HeredocEnd == <<"\n", "E", "N", "V", "E", "O", "F", "\n">>

HasFeatsHead == <<"H", "A", "S", "_", "F", "E", "A", "T", "S", "=">>

FeatHead == <<"F", "E", "A", "T", "_", "L", "I", "N", "E", "S", "<", "<", "E", "N", "V", "E", "O", "F", "\n">>

TrueStr == <<"t", "r", "u", "e">>

FalseStr == <<"f", "a", "l", "s", "e">>

\* The character U+0060 (a TLA+ string literal cannot hold it).
Backtick == "U+0060"

\* A name of the script that no statement has bound yet.
Unbound == <<>>

\* An environment variable is <<>> when unset and <<value>> when set.
EnvUnset == <<>>

\* os.environ.get(name, default)
EnvGet(e, default) == IF e = EnvUnset THEN default ELSE e[1]

-----------------------------------------------------------------------------
(* String operations *)

\* str.startswith(prefix)
StartsWith(s, p) == Len(s) >= Len(p) /\ \A i \in 1..Len(p) : s[i] = p[i]

\* s[:n]
Take(s, n) == IF Len(s) <= n THEN s ELSE SubSeq(s, 1, n)

\* sep.join(ls)
RECURSIVE Join(_, _)
Join(ls, sep) ==
    IF ls = <<>> THEN <<>>
    ELSE IF Len(ls) = 1 THEN ls[1]
    ELSE ls[1] \o sep \o Join(Tail(ls), sep)

\* str.strip(): the text between the first and the last non-whitespace character.
Strip(s) ==
    IF \A i \in 1..Len(s) : s[i] \in WS THEN <<>>
    ELSE LET first == CHOOSE i \in 1..Len(s) :
                          s[i] \notin WS /\ \A j \in 1..(i - 1) : s[j] \in WS
             last  == CHOOSE i \in 1..Len(s) :
                          s[i] \notin WS /\ \A j \in (i + 1)..Len(s) : s[j] \in WS
         IN  SubSeq(s, first, last)

\* The positions where a line boundary of s ends; "\r\n" is one boundary,
\* ending at its "\n".
BreakEnds(s) ==
    {i \in 1..Len(s) : s[i] \in LineBreaks
                        /\ ~(s[i] = "\r" /\ i < Len(s) /\ s[i + 1] = "\n")}

\* str.splitlines(): the text between line boundaries, boundaries removed; a
\* boundary at the very end opens no further line.
SplitLines(s) ==
    LET ends    == BreakEnds(s)
        nb      == Cardinality(ends)
        kth(k)  == IF k = 0 THEN 0
                   ELSE CHOOSE i \in ends : Cardinality({j \in ends : j < i}) = k - 1
        lastEnd == IF nb = 0 THEN 0 ELSE kth(nb)
        count   == IF lastEnd < Len(s) THEN nb + 1 ELSE nb
        stop(k) == IF k > nb THEN Len(s)
                   ELSE LET e == kth(k)
                        IN  IF s[e] = "\n" /\ e > 1 /\ s[e - 1] = "\r"
                            THEN e - 2 ELSE e - 1
    IN  [k \in 1..count |-> SubSeq(s, kth(k - 1) + 1, stop(k))]

-----------------------------------------------------------------------------
(* re.match(r'^\*\s+(.+?)\s+\(([0-9a-f]{7,})\)$', s) *)

\* $ : at the end of the string, or just before a newline that ends it.
AtEnd(s, p) == p = Len(s) + 1 \/ (p = Len(s) /\ s[p] = "\n")

\* The last position of the run of whitespace that starts at p (p - 1 if none).
WsRunEnd(s, p) ==
    IF p > Len(s) \/ s[p] \notin WS THEN p - 1
    ELSE CHOOSE e \in p..Len(s) :
             /\ \A t \in p..e : s[t] \in WS
             /\ (e = Len(s) \/ s[e + 1] \notin WS)

\* \(([0-9a-f]{7,})\)$ from position p: the positions d where the hash can end.
HashEnds(s, p) ==
    IF p > Len(s) \/ s[p] # "(" THEN {}
    ELSE {d \in (p + MinHex)..(Len(s) - 1) :
             /\ s[d + 1] = ")"
             /\ AtEnd(s, d + 2)
             /\ \A t \in (p + 1)..d : s[t] \in HexDigits}

\* \s+\(([0-9a-f]{7,})\)$ after a message that ends at b: the positions c where
\* the second run of whitespace can end.
SpaceEnds(s, b) ==
    IF b + 1 > Len(s) \/ s[b + 1] \notin WS THEN {}
    ELSE {c \in (b + 1)..WsRunEnd(s, b + 1) : HashEnds(s, c + 1) # {}}

\* (.+?) from a + 1: the positions b where the message can end ('.' matches
\* anything but a newline).
MsgEnds(s, a) ==
    {b \in (a + 1)..Len(s) :
        /\ SpaceEnds(s, b) # {}
        /\ \A t \in (a + 1)..b : s[t] # "\n"}

Max(S) == CHOOSE x \in S : \A y \in S : y <= x

Min(S) == CHOOSE x \in S : \A y \in S : x <= y

\* m is None
NoMatch == [ok |-> FALSE, g1 |-> <<>>, g2 |-> <<>>]

\* The match object.  ^\*\s+ can end at any position a of the whitespace after
\* the star; the backtracking search takes the first whitespace greedily (the
\* largest a the rest of the pattern matches from), the message lazily (the
\* smallest b), the second whitespace and the hash greedily.  g1 is m.group(1),
\* g2 is m.group(2).
ReMatch(s) ==
    IF Len(s) = 0 \/ s[1] # "*" THEN NoMatch
    ELSE LET ends  == [a \in 2..WsRunEnd(s, 2) |-> MsgEnds(s, a)]
             leads == {a \in DOMAIN ends : ends[a] # {}}
         IN  IF leads = {} THEN NoMatch
             ELSE LET a == Max(leads)
                      b == Min(ends[a])
                      c == Max(SpaceEnds(s, b))
                      d == Max(HashEnds(s, c + 1))
                  IN  [ok |-> TRUE, g1 |-> SubSeq(s, a + 1, b),
                       g2 |-> SubSeq(s, c + 2, d)]

-----------------------------------------------------------------------------
(* The statements of the script as operators *)

\* Skip with the space of 'Merge ' forgotten.
SkipAnyMerge(g) ==
    StartsWith(g, ChorePrefix) \/ StartsWith(g, <<"M", "e", "r", "g", "e">>)

\* msg.startswith('chore') or msg.startswith('Merge ')
Skip(g) == StartsWith(g, ChorePrefix) \/ StartsWith(g, MergePrefix)

\* Url with the hash cut to MinHex digits.
UrlShortHash(r, h) == UrlHead \o r \o UrlCommit \o Take(h, MinHex)

\* f'https://github.com/{repo}/commit/{sha}'
Url(r, h) == UrlHead \o r \o UrlCommit \o h

\* Entry with the message before the link.
EntryMessageFirst(h, u, g) ==
    g \o <<" ", "[", Backtick>> \o h \o <<Backtick, "]", "(">> \o u \o <<")">>

\* f'[<backtick>{sha}<backtick>]({url}) {msg}'
Entry(h, u, g) == <<"[", Backtick>> \o h \o <<Backtick, "]", "(">> \o u \o <<")", " ">> \o g

\* msg.startswith('feat')
IsFeat(g) == StartsWith(g, FeatPrefix)

\* Joined without the 'No changes.' fallback.
JoinedNoFallback(ls) == Join(ls, <<"\n">>)

\* '\n'.join(lines) if lines else 'No changes.'
Joined(ls) == IF ls # <<>> THEN Join(ls, <<"\n">>) ELSE NoChanges

\* Truncate with >= for >.
TruncateFromLimit(s) == IF Len(s) >= Limit THEN Take(s, Limit) \o Ellipsis ELSE s

\* if len(body_out) > 3900: body_out = body_out[:3900] + '\n...'
Truncate(s) == IF Len(s) > Limit THEN Take(s, Limit) \o Ellipsis ELSE s

\* FeatBody capped like the main digest.
FeatBodyCapped(fl) == Truncate(Join(fl, <<"\n">>))

\* '\n'.join(feat_lines)
FeatBody(fl) == Join(fl, <<"\n">>)

\* f'COMMIT_LINES<<ENVEOF\n{body_out}\nENVEOF\n'
CommitBlock(v) == CommitHead \o v \o HeredocEnd

\* f"HAS_FEATS={'true' if feat_lines else 'false'}\n"
FlagLine(fl) == HasFeatsHead \o (IF fl # <<>> THEN TrueStr ELSE FalseStr) \o <<"\n">>

\* f'FEAT_LINES<<ENVEOF\n{feat_body}\nENVEOF\n'
FeatBlock(v) == FeatHead \o v \o HeredocEnd

\* A path of the file system holds <<>> when there is no file and <<content>>
\* when there is one.
NoFile == <<>>

\* f.write(data) on a file opened with mode 'a': the data goes to the end.
Appended(files, path, data) == [files EXCEPT ![path] = <<@[1] \o data>>]

\* Opened with mode 'w': the content is dropped.
OpenedForWriting(files, path) == [files EXCEPT ![path] = <<<<>>>>]

\* open(path, 'a') creates the file when it does not exist and keeps its content
\* when it does (the path is taken to be one that can be opened).
Opened(files, path) == [files EXCEPT ![path] = IF @ = NoFile THEN <<<<>>>> ELSE @]

-----------------------------------------------------------------------------
(* Inputs *)

\* The longest pull-request body, in lines.
MaxLines == 2

Pad(k) == [i \in 1..k |-> "x"]

HashTail == <<" ", "(", "1", "2", "3", "4", "5", "6", "7", ")">>

RepoName == <<"o", "/", "r">>

EnvPath == <<"/", "t", "m", "p", "/", "e", "n", "v">>

OldContent == <<"A", "=", "1", "\n">>

NotABullet == <<"n", "o", "t", " ", "a", " ", "b", "u", "l", "l", "e", "t">>

FixLine == <<"*", " ", "f", "i", "x", ":", " ", "b", "u", "g", " ", "(", "1", "2", "3", "4", "5", "6", "7", ")">>

FeatLine == <<" ", " ", "*", " ", "f", "e", "a", "t", ":", " ", "a", "d", "d", " ", "t", "h", "i", "n", "g", " ", "(", "a", "b", "c", "d", "e", "f", "0", "1", ")", "\r">>

ChoreLine == <<"*", " ", "c", "h", "o", "r", "e", ":", " ", "b", "u", "m", "p", " ", "(", "a", "b", "c", "d", "e", "f", "0", ")">>

MergeLine == <<"*", " ", "M", "e", "r", "g", "e", " ", "b", "r", "a", "n", "c", "h", " ", "x", " ", "(", "1", "2", "3", "4", "5", "6", "7", ")">>

MergeableLine == <<"*", " ", "M", "e", "r", "g", "e", "a", "b", "l", "e", " ", "f", "l", "a", "g", " ", "(", "8", "9", "a", "b", "c", "d", "e", ")">>

BareMergeLine == <<"*", " ", "M", "e", "r", "g", "e", " ", "(", "7", "6", "5", "4", "3", "2", "1", ")">>

BlankMsgLine == <<"*", " ", " ", " ", "(", "1", "2", "3", "4", "5", "6", "7", ")">>

EnvEofLine == <<"*", " ", "E", "N", "V", "E", "O", "F", " ", "(", "1", "2", "3", "4", "5", "6", "7", ")">>

\* Len(Entry(h, Url(RepoName, h), g)) - Len(g) for a hash h of MinHex digits.
EntryOverhead == Len(Entry(Pad(MinHex), Url(RepoName, Pad(MinHex)), <<>>))

\* The message of LongFeatLine: under RepoName its entry, a newline and the entry
\* of BareMergeLine (message "Merge") are exactly Limit characters together, and
\* with the entry of EnvEofLine (message "ENVEOF") exactly Limit + 1.
LongMsg == <<"f", "e", "a", "t", ":", " ">> \o Pad(Limit - 1 - (EntryOverhead + 5) - EntryOverhead - 6)

LongFeatLine == <<"*", " ">> \o LongMsg \o HashTail

LineSet == {NotABullet, FixLine, FeatLine, ChoreLine, MergeLine, MergeableLine,
            BareMergeLine, BlankMsgLine, EnvEofLine, LongFeatLine}

\* The bodies: up to MaxLines lines of LineSet, one per line.
Bodies == {Join(ls, <<"\n">>) : ls \in UNION {[1..k -> LineSet] : k \in 0..MaxLines}}

Paths == {EnvPath}

-----------------------------------------------------------------------------
(* The run *)

\* The process starts: the environment and the file system are whatever the
\* workflow step left.  fs0 records the file system before the run.
Init ==
    /\ environ \in [PR_BODY : {EnvUnset} \cup {<<b>> : b \in Bodies},
                    GITHUB_REPOSITORY : {EnvUnset, <<RepoName>>},
                    GITHUB_ENV : {EnvUnset, <<EnvPath>>}]
    /\ fs \in [Paths -> {NoFile, <<OldContent>>}]
    /\ fs0 = fs
    /\ pc = "start"
    /\ body = Unbound /\ todo = Unbound /\ idx = 0
    /\ lines = Unbound /\ feat_lines = Unbound
    /\ line = Unbound /\ m = NoMatch /\ msg = Unbound /\ sha = Unbound
    /\ repo = Unbound /\ url = Unbound /\ entry = Unbound
    /\ body_out = Unbound /\ feat_body = Unbound
    /\ f = NoFile

\* body = os.environ.get('PR_BODY', ''); lines = []; feat_lines = [];
\* the for statement evaluates body.splitlines() once.
ReadBody ==
    /\ pc = "start"
    /\ body' = EnvGet(environ.PR_BODY, <<>>)
    /\ lines' = <<>>
    /\ feat_lines' = <<>>
    /\ todo' = SplitLines(body')
    /\ idx' = 1
    /\ pc' = "loop"
    /\ UNCHANGED <<environ, fs, fs0, line, m, msg, sha, repo, url, entry,
                   body_out, feat_body, f>>

\* if not m: continue
NoMatchPass(mm) ==
    /\ ~mm.ok
    /\ UNCHANGED <<lines, feat_lines, msg, sha, repo, url, entry>>

\* The message is a chore or a merge: continue.
SkipPass(mm) ==
    /\ mm.ok
    /\ msg' = mm.g1
    /\ sha' = mm.g2
    /\ Skip(msg')
    /\ UNCHANGED <<lines, feat_lines, repo, url, entry>>

\* The line is kept: the entry is built and appended.
KeepPass(mm) ==
    /\ mm.ok
    /\ msg' = mm.g1
    /\ sha' = mm.g2
    /\ ~Skip(msg')
    /\ repo' = EnvGet(environ.GITHUB_REPOSITORY, <<>>)
    /\ url' = Url(repo', sha')
    /\ entry' = Entry(sha', url', msg')
    /\ lines' = Append(lines, entry')
    /\ feat_lines' = IF IsFeat(msg') THEN Append(feat_lines, entry') ELSE feat_lines

\* One pass of the loop body, on the next line of body.splitlines().
LoopPass ==
    /\ pc = "loop" /\ idx <= Len(todo)
    /\ line' = todo[idx]
    /\ \E stripped \in {Strip(todo[idx])} : \E mm \in {ReMatch(stripped)} :
           /\ m' = mm
           /\ (NoMatchPass(mm) \/ SkipPass(mm) \/ KeepPass(mm))
    /\ idx' = idx + 1
    /\ UNCHANGED <<environ, fs, fs0, pc, body, todo, body_out, feat_body, f>>

\* The loop is over: body_out and feat_body are computed.
Finish ==
    /\ pc = "loop" /\ idx > Len(todo)
    /\ body_out' = Truncate(Joined(lines))
    /\ feat_body' = FeatBody(feat_lines)
    /\ pc' = "open"
    /\ UNCHANGED <<environ, fs, fs0, body, todo, idx, lines, feat_lines, line, m,
                   msg, sha, repo, url, entry, f>>

\* os.environ['GITHUB_ENV'] raises KeyError: the process dies before open().
NoEnvKey ==
    /\ pc = "open"
    /\ environ.GITHUB_ENV = EnvUnset
    /\ pc' = "error"
    /\ UNCHANGED <<environ, fs, fs0, body, todo, idx, lines, feat_lines, line, m,
                   msg, sha, repo, url, entry, body_out, feat_body, f>>

\* Open with a default path for an unset GITHUB_ENV.
OpenDefaultPath ==
    /\ pc = "open"
    /\ f' = <<EnvGet(environ.GITHUB_ENV, EnvPath)>>
    /\ fs' = Opened(fs, f'[1])
    /\ pc' = "write1"
    /\ UNCHANGED <<environ, fs0, body, todo, idx, lines, feat_lines, line, m,
                   msg, sha, repo, url, entry, body_out, feat_body>>

\* with open(os.environ['GITHUB_ENV'], 'a') as f
Open ==
    /\ pc = "open"
    /\ environ.GITHUB_ENV # EnvUnset
    /\ f' = <<environ.GITHUB_ENV[1]>>
    /\ fs' = Opened(fs, f'[1])
    /\ pc' = "write1"
    /\ UNCHANGED <<environ, fs0, body, todo, idx, lines, feat_lines, line, m,
                   msg, sha, repo, url, entry, body_out, feat_body>>

Write1 ==
    /\ pc = "write1"
    /\ fs' = Appended(fs, f[1], CommitBlock(body_out))
    /\ pc' = "write2"
    /\ UNCHANGED <<environ, fs0, body, todo, idx, lines, feat_lines, line, m,
                   msg, sha, repo, url, entry, body_out, feat_body, f>>

Write2 ==
    /\ pc = "write2"
    /\ fs' = Appended(fs, f[1], FlagLine(feat_lines))
    /\ pc' = "write3"
    /\ UNCHANGED <<environ, fs0, body, todo, idx, lines, feat_lines, line, m,
                   msg, sha, repo, url, entry, body_out, feat_body, f>>

\* The last write; leaving the with block closes the file and the script ends.
Write3 ==
    /\ pc = "write3"
    /\ fs' = Appended(fs, f[1], FeatBlock(feat_body))
    /\ f' = NoFile
    /\ pc' = "done"
    /\ UNCHANGED <<environ, fs0, body, todo, idx, lines, feat_lines, line, m,
                   msg, sha, repo, url, entry, body_out, feat_body>>

Next ==
    \/ ReadBody
    \/ LoopPass
    \/ Finish
    \/ NoEnvKey
    \/ Open
    \/ Write1
    \/ Write2
    \/ Write3

Spec == Init /\ [][Next]_vars

-----------------------------------------------------------------------------
(* What the properties below speak about *)

\* The value of an environment variable, '' when it is unset.
EnvValue(e) == IF e = EnvUnset THEN <<>> ELSE e[1]

\* The content of the file at path in files, '' when there is no file.
Content(files, path) == IF files[path] = NoFile THEN <<>> ELSE files[path][1]

\* The parse of every line of the body: what the bullet pattern extracts from it.
Records == [k \in 1..Len(todo) |-> ReMatch(Strip(todo[k]))]

\* A message that is neither a chore nor a merge.
IsRetained(g) == ~StartsWith(g, ChorePrefix) /\ ~StartsWith(g, MergePrefix)

\* The entries of the records from the k-th on that are retained (and, with
\* onlyFeat, whose message starts with "feat"), in the order of the body.
RECURSIVE EntriesFrom(_, _, _, _)
EntriesFrom(recs, r, onlyFeat, k) ==
    IF k > Len(recs) THEN <<>>
    ELSE (IF /\ recs[k].ok
             /\ IsRetained(recs[k].g1)
             /\ (onlyFeat => StartsWith(recs[k].g1, FeatPrefix))
          THEN <<Entry(recs[k].g2, Url(r, recs[k].g2), recs[k].g1)>>
          ELSE <<>>) \o EntriesFrom(recs, r, onlyFeat, k + 1)

\* s ends with p.
EndsWith(s, p) ==
    Len(s) >= Len(p) /\ \A i \in 1..Len(p) : s[Len(s) - Len(p) + i] = p[i]

\* The positions where a "\n"-delimited line of v starts.
LineStarts(v) == {1} \cup {i + 1 : i \in {j \in 1..Len(v) : v[j] = "\n"}}

\* The "\n"-delimited line of v that starts at i.
LineAt(v, i) ==
    IF \A j \in i..Len(v) : v[j] # "\n" THEN SubSeq(v, i, Len(v))
    ELSE SubSeq(v, i, (CHOOSE j \in i..Len(v) :
                          v[j] = "\n" /\ \A k \in i..(j - 1) : v[k] # "\n") - 1)

\* The last pass of the loop kept its line: msg, sha, url and entry are its.
KeptLast == m.ok /\ IsRetained(msg)

-----------------------------------------------------------------------------
(* C1 *)

\* C1: when the loop is over, the main digest before truncation (lines) holds
\* exactly one entry for every body line that matches the bullet pattern and
\* whose message starts neither with "chore" nor with "Merge ", in the order of
\* the body; other lines contribute nothing.
C1_DigestIsFilteredBodyInOrder ==
    pc = "open" =>
        lines = EntriesFrom(Records, EnvValue(environ.GITHUB_REPOSITORY), FALSE, 1)

\* A body of a "Merge " line (dropped) and a "Merge" line without the space (kept).
C1_Witness ==
    /\ pc = "open"
    /\ todo = <<MergeLine, BareMergeLine>>
    /\ Len(lines) = 1
    /\ msg = <<"M", "e", "r", "g", "e">>

-----------------------------------------------------------------------------
(* C2 *)

\* C2: the entry of a retained record shows the first 7 characters of the
\* identifier between the backticks: [<bt><sha[:7]><bt>](<link>) <message>.
C2_DisplayIsSevenCharacters ==
    KeptLast =>
        entry = <<"[", Backtick>> \o Take(sha, 7) \o <<Backtick, "]", "(">>
                    \o url \o <<")", " ">> \o msg

-----------------------------------------------------------------------------
(* C3 *)

\* C3: the feature digest is the newline-join of exactly the retained entries
\* whose message starts with "feat", in the order of the body, whole however long
\* it is; the HAS_FEATS line written after it was computed says "true" if and only if some parsed record's message
\* starts with "feat", if and only if the feature digest is not empty, and
\* "false" otherwise.
C3_FeatureDigestAndFlag ==
    pc = "write3" =>
        \E recs \in {Records} :
           LET anyFeat == \E k \in 1..Len(recs) :
                              recs[k].ok /\ StartsWith(recs[k].g1, FeatPrefix)
               written == Content(fs, EnvPath)
           IN  /\ feat_body = Join(EntriesFrom(recs, EnvValue(environ.GITHUB_REPOSITORY),
                                                TRUE, 1), <<"\n">>)
               /\ EndsWith(written, HasFeatsHead \o TrueStr \o <<"\n">>) <=> anyFeat
               /\ EndsWith(written, HasFeatsHead \o FalseStr \o <<"\n">>) <=> ~anyFeat
               /\ anyFeat <=> feat_body # <<>>

\* The main digest is cut and the feature digest, longer than 3900, is whole.
C3_Witness ==
    /\ pc = "write3"
    /\ Len(feat_body) > 3900
    /\ Len(body_out) = 3904
    /\ EndsWith(Content(fs, EnvPath), HasFeatsHead \o TrueStr \o <<"\n">>)

-----------------------------------------------------------------------------
(* C4 *)

\* C4: the COMMIT_LINES value written is the newline-joined main digest when that
\* is 3900 characters or shorter, and its first 3900 characters followed by a
\* newline and "..." when it is longer.
C4_TruncationAt3900 ==
    pc = "write2" =>
        LET joined == IF lines = <<>> THEN NoChanges ELSE Join(lines, <<"\n">>)
            value  == IF Len(joined) <= 3900 THEN joined
                      ELSE SubSeq(joined, 1, 3900) \o <<"\n", ".", ".", ".">>
        IN  Content(fs, EnvPath) = Content(fs0, EnvPath) \o CommitHead \o value \o HeredocEnd

\* A joined digest of exactly 3901 characters has been written, cut inside its
\* second entry.
C4_Witness ==
    /\ pc = "write2"
    /\ Len(lines) = 2
    /\ Len(Join(lines, <<"\n">>)) = 3901
    /\ Len(body_out) = 3904
    /\ EndsWith(Content(fs, EnvPath), <<"\n", ".", ".", ".">> \o HeredocEnd)

-----------------------------------------------------------------------------
(* C5 *)

\* C5: when no record is retained, the main digest is "No changes.", the flag is
\* "false" and the feature digest is the empty string (checked when the run has
\* ended), and that is what a successful run has written.
C5_NothingRetained ==
    (pc \in {"done", "error"}
        /\ \E recs \in {Records} :
               \A k \in 1..Len(recs) : ~(recs[k].ok /\ IsRetained(recs[k].g1))) =>
        /\ body_out = NoChanges
        /\ feat_body = <<>>
        /\ pc = "done" =>
               Content(fs, EnvPath) =
                   Content(fs0, EnvPath) \o CommitHead \o NoChanges \o HeredocEnd
                       \o HasFeatsHead \o FalseStr \o <<"\n">>
                       \o FeatHead \o HeredocEnd

\* A finished run on a body whose only bullet is a chore.
C5_Witness ==
    /\ pc = "done"
    /\ todo = <<NotABullet, ChoreLine>>
    /\ lines = <<>>

-----------------------------------------------------------------------------
(* C6 *)

\* C6: a successful run leaves in the sink what was there before, followed by
\* the COMMIT_LINES block, the HAS_FEATS line and the FEAT_LINES block, in this
\* order; and at no point of the run is the old content anything but a prefix.
C6_ThreeEntriesAppended ==
    /\ StartsWith(Content(fs, EnvPath), Content(fs0, EnvPath))
    /\ (fs0[EnvPath] # NoFile => fs[EnvPath] # NoFile)
    /\ pc = "done" =>
           Content(fs, EnvPath) =
               Content(fs0, EnvPath)
                   \o CommitHead \o body_out \o HeredocEnd
                   \o HasFeatsHead \o (IF feat_lines # <<>> THEN TrueStr ELSE FalseStr)
                   \o <<"\n">>
                   \o FeatHead \o feat_body \o HeredocEnd

\* A finished run on a sink that held something, with a feature among the entries.
C6_Witness ==
    /\ pc = "done"
    /\ fs0[EnvPath] = <<OldContent>>
    /\ Len(lines) = 2
    /\ Len(feat_lines) = 1
    /\ Len(Content(fs, EnvPath)) > Len(OldContent) + Len(body_out) + Len(feat_body)

-----------------------------------------------------------------------------
(* C7 *)

\* C7: the link of a retained record is https://github.com/<repo>/commit/<sha>
\* with the GITHUB_REPOSITORY value ('' when unset) and the whole matched hash,
\* and the entry carries it; "* fix: bug (1234567)" under "o/r" gives
\* https://github.com/o/r/commit/1234567; and with GITHUB_REPOSITORY unset (and
\* a sink to write to) the run never fails, the file can be opened once the loop
\* is over, and the finished run has written the three outputs.
C7_LinkAndUnsetRepository ==
    /\ KeptLast =>
           /\ sha = m.g2
           /\ url = <<"h", "t", "t", "p", "s", ":", "/", "/", "g", "i", "t", "h", "u",
                      "b", ".", "c", "o", "m", "/">>
                        \o EnvValue(environ.GITHUB_REPOSITORY)
                        \o <<"/", "c", "o", "m", "m", "i", "t", "/">> \o m.g2
           /\ \E i \in 2..(Len(entry) - Len(url) - 1) :
                  /\ entry[i - 1] = "]"
                  /\ SubSeq(entry, i, i + Len(url) + 1) = <<"(">> \o url \o <<")">>
    /\ (KeptLast /\ line = FixLine /\ environ.GITHUB_REPOSITORY = <<RepoName>>) =>
           url = UrlHead \o <<"o", "/", "r", "/", "c", "o", "m", "m", "i", "t", "/",
                              "1", "2", "3", "4", "5", "6", "7">>
    /\ (environ.GITHUB_REPOSITORY = EnvUnset /\ environ.GITHUB_ENV # EnvUnset) =>
           /\ pc # "error"
           /\ pc = "loop" => idx \in 1..(Len(todo) + 1)
           /\ pc = "open" => ENABLED Open
           /\ pc = "done" =>
                  Content(fs, EnvPath) =
                      Content(fs0, EnvPath) \o CommitBlock(body_out)
                          \o FlagLine(feat_lines) \o FeatBlock(feat_body)

\* A finished run with GITHUB_REPOSITORY unset whose last line was kept with an
\* 8-digit hash.
C7_Witness ==
    /\ pc = "done"
    /\ environ.GITHUB_REPOSITORY = EnvUnset
    /\ KeptLast
    /\ sha = <<"a", "b", "c", "d", "e", "f", "0", "1">>
    /\ url = UrlHead \o UrlCommit \o <<"a", "b", "c", "d", "e", "f", "0", "1">>

-----------------------------------------------------------------------------
(* C8 *)

\* C8: with GITHUB_ENV unset the file system stays as it was (nothing created,
\* nothing appended), no file is ever open, no write is reached, and after the
\* loop the only step is the fatal error.
C8_NoSinkNoOutput ==
    environ.GITHUB_ENV = EnvUnset =>
        /\ fs = fs0
        /\ f = NoFile
        /\ pc \notin {"write1", "write2", "write3", "done"}
        /\ pc = "open" => (ENABLED NoEnvKey /\ ~ENABLED Open)

\* The run died with entries to write and no file at the path.
C8_Witness ==
    /\ pc = "error"
    /\ environ.GITHUB_ENV = EnvUnset
    /\ Len(lines) = 2
    /\ fs0[EnvPath] = NoFile
    /\ fs[EnvPath] = NoFile

-----------------------------------------------------------------------------
(* C9 *)

\* C9: the message the bullet pattern extracts has no leading and no trailing
\* whitespace, and the identifier is 7 or more lowercase hex digits.
C9_MessageHasNoOuterWhitespace ==
    m.ok =>
        /\ m.g1 # <<>>
        /\ m.g1[1] \notin WS
        /\ m.g1[Len(m.g1)] \notin WS
        /\ Len(m.g2) >= 7
        /\ \A i \in 1..Len(m.g2) : m.g2[i] \in HexDigits

-----------------------------------------------------------------------------
(* C10 *)

\* C10: when GITHUB_REPOSITORY holds no line break, no line of the COMMIT_LINES
\* value or of the FEAT_LINES value of a successful run is exactly "ENVEOF":
\* every line of them is "No changes.", "...", empty, or the beginning of an
\* entry, which starts with "[" and a backtick.
C10_NoValueLineIsTheDelimiter ==
    (pc = "done" /\ \A i \in 1..Len(EnvValue(environ.GITHUB_REPOSITORY)) :
                        EnvValue(environ.GITHUB_REPOSITORY)[i] \notin {"\n", "\r"}) =>
        \A v \in {body_out, feat_body} : \A i \in LineStarts(v) :
            \E ln \in {LineAt(v, i)} :
                /\ ln # <<"E", "N", "V", "E", "O", "F">>
                /\ \/ ln = NoChanges
                   \/ ln = <<".", ".", ".">>
                   \/ ln = <<>>
                   \/ /\ StartsWith(ln, Take(<<"[", Backtick>>, Len(ln)))
                      /\ \E k \in 1..Len(lines) : StartsWith(lines[k], ln)

\* A finished run whose digest was cut inside the entry of the message "ENVEOF".
C10_Witness ==
    /\ pc = "done"
    /\ environ.GITHUB_REPOSITORY = <<RepoName>>
    /\ todo = <<LongFeatLine, EnvEofLine>>
    /\ Len(body_out) = 3904

=============================================================================
